---- MODULE Spec2Model ----
(***************************************************************************)
(* One VirtualConnection of laminar, driven through the Connection trait   *)
(* (src/net/connection_impl.rs): should_drop, process_packet,              *)
(* process_event and update, with the messenger's event sink and raw send  *)
(* recorded per call.                                                      *)
(*                                                                         *)
(* The connection's MetricsHandler (src/infrastructure/metrics.rs) is      *)
(* followed figure by figure in SpecMetrics, and two connected peers that  *)
(* exchange nothing but heartbeats in SpecPair.                            *)
(*                                                                         *)
(* Time is counted in clock units; UnitsPerSec units make one second.      *)
(* `now` is the wall clock (Instant::now()); a call's `time` argument is   *)
(* the instant its caller has just read off that clock.                    *)
(***************************************************************************)
EXTENDS Integers, Sequences, FiniteSets, TLC

VARIABLES
    now,            \* wall clock, Instant::now()
    ever_sent,      \* VirtualConnection: a send was recorded
    ever_recv,      \* VirtualConnection: a receive was recorded
    last_heard,     \* VirtualConnection.last_heard
    last_sent,      \* VirtualConnection.last_sent
    last_metric,    \* VirtualConnection.last_metric
    sent_packets,   \* acknowledgment handler: records awaiting acknowledgment
    nextSeq,        \* acknowledgment handler: next sequence number
    nextItem,       \* arranging: next item identifier
    counter,        \* MetricsHandler.counter: calls of calculate_output
    call,           \* the latest call: operation, arguments, pre-state, outputs
    hist,           \* history of the connection's life (observation only)
    current_frame,      \* MetricsHandler.current_frame
    current_averages,   \* MetricsHandler.current_averages
    remote,         \* SpecPair: the VirtualConnection at the remote end
    link,           \* SpecPair: heartbeats in flight, per direction
    sched           \* SpecPair: heartbeat interval, latest update per end

vars == <<now, ever_sent, ever_recv, last_heard, last_sent,
          last_metric, sent_packets, nextSeq, nextItem, counter, call, hist,
          current_frame, current_averages, remote, link, sched>>

metricsVars == <<current_frame, current_averages>>

pairVars == <<remote, link, sched>>

connVars == <<ever_sent, ever_recv, last_heard, last_sent, last_metric,
              sent_packets, nextSeq, nextItem, counter>>

\* ------------------------------------------------------------------ bounds

MaxTime == 4        \* the wall clock runs 0..MaxTime
MaxSeq == 2         \* user sends are handed sequence numbers 1..MaxSeq
UnitsPerSec == 2    \* clock units per second
MaxRecords == 3     \* SpecMetrics: record_* calls in a handler's life
MaxIntervals == 3   \* SpecMetrics: calculate_output calls in a handler's life

\* ------------------------------------------------------------ configuration

\* messenger.config(), read anew by every call. The heartbeat interval is
\* an Option<Duration>: None is <<>>, Some(d) is <<d>>; update is tried under
\* each of HeartbeatChoices.
cfg ==
    [max_packets_in_flight |-> 1,
     idle_connection_timeout |-> 3,
     fragment_size |-> 2,
     max_fragments |-> 2,
     resend_threshold |-> 1]

HeartbeatChoices == {<<>>, <<0>>, <<2>>}

\* The user sends tried: a small unreliable packet, a reliable ordered
\* packet of one fragment, a reliable packet split in two fragments, and a
\* payload that needs more fragments than max_fragments allows.
UserSends ==
    {[len |-> 1, delivery |-> "Unreliable", ordering |-> "None"],
     [len |-> 2, delivery |-> "Reliable", ordering |-> "Ordered"],
     [len |-> 3, delivery |-> "Reliable", ordering |-> "None"],
     [len |-> 5, delivery |-> "Reliable", ordering |-> "None"]}

\* ------------------------------------------------------------ helpers

Min(a, b) == IF a < b THEN a ELSE b

Max(a, b) == IF a > b THEN a ELSE b

RECURSIVE SortBySeq(_)
SortBySeq(S) ==
    IF S = {} THEN <<>>
    ELSE LET r == CHOOSE x \in S : \A y \in S : x.seq <= y.seq
         IN <<r>> \o SortBySeq(S \ {r})

Range(s) == {s[i] : i \in 1..Len(s)}

\* ------------------------------------------------------ messenger outputs

NoPkt ==
    [seq |-> 0, payload |-> 0, packet_type |-> "", delivery |-> "",
     ordering |-> "", item_identifier |-> <<>>]

\* messenger.send_event(&addr, SocketEvent::<name>(addr))
SendEvent(name) == [kind |-> "event", tag |-> name, pkt |-> NoPkt]

\* messenger.send_event(&addr, SocketEvent::Packet(incoming.0)); a logical
\* packet is known by its payload.
SendPacketEvent(incoming) ==
    [kind |-> "event", tag |-> "Packet", pkt |-> [NoPkt EXCEPT !.payload = incoming]]

\* ctx.send_packet(address, &outgoing.contents())
SendPacket(context, pkt) == [kind |-> "wire", tag |-> context, pkt |-> pkt]

\* Variant: the wire packets are dispatched last one first.
send_packets_reversed(packets, err_context) ==
    IF ~packets.ok THEN <<>>
    ELSE [i \in 1..Len(packets.packets) |->
              SendPacket(err_context,
                         packets.packets[Len(packets.packets) + 1 - i])]

RECURSIVE send_packets(_, _)
send_packets(packets, err_context) ==
    IF ~packets.ok THEN <<>>
    ELSE IF packets.packets = <<>> THEN <<>>
    ELSE <<SendPacket(err_context, Head(packets.packets))>>
         \o send_packets([packets EXCEPT !.packets = Tail(@)], err_context)

\* ------------------------------------------------- VirtualConnection state

is_established(sent, recv) == sent /\ recv

packets_in_flight == Cardinality(sent_packets)

LastHeard(time) == time - last_heard

LastSent(sent_at, time) == time - sent_at

\* record_send / record_recv: set the flag, report whether this call
\* established the connection.
record_send == ~is_established(ever_sent, ever_recv) /\ is_established(TRUE, ever_recv)

record_recv == ~is_established(ever_sent, ever_recv) /\ is_established(ever_sent, TRUE)

\* ------------------------------------------------------- packet building

PacketInfo(packet_type, payload, delivery, ordering) ==
    [packet_type |-> packet_type, payload |-> payload,
     delivery |-> delivery, ordering |-> ordering]

user_packet(payload, delivery, ordering) ==
    PacketInfo("Packet", payload, delivery, ordering)

heartbeat_packet == PacketInfo("Heartbeat", 0, "Unreliable", "None")

NumFragments(len) ==
    IF len = 0 THEN 1
    ELSE (len + cfg.fragment_size - 1) \div cfg.fragment_size

FragmentLen(len, n, i) ==
    IF i < n THEN cfg.fragment_size ELSE len - (n - 1) * cfg.fragment_size

\* process_outgoing(info, last_item_identifier, time), from sequence number
\* seq0 and item identifier item0 on: the wire packets in generation order
\* and the records registered with the acknowledgment handler.
process_outgoing(info, last_item_identifier, time, seq0, item0) ==
    LET n == NumFragments(info.payload)
        reliable == info.delivery = "Reliable"
        fresh == last_item_identifier = <<>> /\ info.ordering # "None"
        item == IF last_item_identifier # <<>> THEN last_item_identifier
                ELSE IF fresh THEN <<item0>> ELSE <<>>
        ptype == IF n > 1 THEN "Fragment" ELSE info.packet_type
        pkt(i) == [seq |-> IF reliable THEN seq0 + i - 1 ELSE 0,
                   payload |-> FragmentLen(info.payload, n, i),
                   packet_type |-> ptype,
                   delivery |-> info.delivery,
                   ordering |-> info.ordering,
                   item_identifier |-> item]
        rec(i) == [seq |-> seq0 + i - 1,
                   payload |-> FragmentLen(info.payload, n, i),
                   packet_type |-> ptype,
                   ordering_guarantee |-> info.ordering,
                   item_identifier |-> item,
                   sent_at |-> time,
                   origin |-> seq0 + i - 1]
    IN IF n > cfg.max_fragments
       THEN [ok |-> FALSE, packets |-> <<>>, records |-> {},
             nextSeq |-> seq0, nextItem |-> item0]
       ELSE [ok |-> TRUE,
             packets |-> [i \in 1..n |-> pkt(i)],
             records |-> IF reliable THEN {rec(i) : i \in 1..n} ELSE {},
             nextSeq |-> IF reliable THEN seq0 + n ELSE seq0,
             nextItem |-> IF fresh THEN item0 + 1 ELSE item0]

\* gather_dropped_packets(): the records older than the resend threshold,
\* oldest sequence number first; they leave the pending storage.
gather_dropped_packets ==
    SortBySeq({r \in sent_packets : now - r.sent_at > cfg.resend_threshold})

\* --------------------------------------------------------- MetricsHandler

\* The figures are f32 in the code; here they are exact fractions
\* [num, den] in lowest terms, den > 0.
RECURSIVE Gcd(_, _)
Gcd(a, b) == IF b = 0 THEN a ELSE Gcd(b, a % b)

Abs(a) == IF a < 0 THEN 0 - a ELSE a

Frac(num, den) ==
    LET g == Gcd(Abs(num), den)
    IN IF num = 0 THEN [num |-> 0, den |-> 1]
       ELSE [num |-> num \div g, den |-> den \div g]

Zero == Frac(0, 1)

\* What an f32 division by zero leaves behind (an infinity or a NaN); it
\* spreads through every operation it enters.
NaN == [num |-> 0, den |-> 0]

IsFinite(x) == x.den > 0

FAdd(x, y) ==
    IF IsFinite(x) /\ IsFinite(y)
    THEN Frac(x.num * y.den + y.num * x.den, x.den * y.den)
    ELSE NaN

FSub(x, y) ==
    IF IsFinite(x) /\ IsFinite(y)
    THEN Frac(x.num * y.den - y.num * x.den, x.den * y.den)
    ELSE NaN

\* x / y for y >= 0
FDiv(x, y) ==
    IF IsFinite(x) /\ IsFinite(y) /\ y.num > 0
    THEN Frac(x.num * y.den, x.den * y.num)
    ELSE NaN

FAbs(x) == Frac(Abs(x.num), x.den)

FLeq(x, y) == x.num * y.den <= y.num * x.den

FLess(x, y) == x.num * y.den < y.num * x.den

\* impl Default for Metrics
Default ==
    [sent_packets |-> Zero, received_packets |-> Zero, sent_kbps |-> Zero,
     receive_kbps |-> Zero, packet_loss |-> Zero, rtt |-> Zero]

FACTOR == 2

Fields ==
    {"sent_packets", "received_packets", "sent_kbps", "receive_kbps",
     "packet_loss", "rtt"}

\* The arguments tried: a packet of a hundred bytes either way, one or two
\* packets reported lost at once, a negative and a positive rtt sample.
SentBytes == {100}

ReceiveBytes == {100}

DroppedCounts == {1, 2}

RttSamples == {Frac(0 - 5, 1), Frac(3, 2)}

record_sent_info(frame, sent_bytes) ==
    [frame EXCEPT
        !.sent_kbps = FAdd(@, FDiv(Frac(sent_bytes, 1), Frac(1000, 1))),
        !.sent_packets = FAdd(@, Frac(1, 1))]

record_receive_info(frame, receive_bytes) ==
    [frame EXCEPT
        !.receive_kbps = FAdd(@, FDiv(Frac(receive_bytes, 1), Frac(1000, 1))),
        !.received_packets = FAdd(@, Frac(1, 1))]

record_packet_loss(frame, dropped_packets_count) ==
    [frame EXCEPT !.packet_loss = FAdd(@, Frac(dropped_packets_count, 1))]

record_rtt(frame, rtt) == [frame EXCEPT !.rtt = FAdd(@, FAbs(rtt))]

\* Variant: the divisor is the number of calls, without the clamp.
average_unclamped(new_value, average_, n) ==
    FAdd(average_, FDiv(FSub(new_value, average_), Frac(n, 1)))

\* average(new_value, average) with self.counter = n
average(new_value, average_, n) ==
    FAdd(average_, FDiv(FSub(new_value, average_), Frac(Min(n, FACTOR), 1)))

\* Variant: the ratio is taken whatever was sent.
frame_packet_loss_unguarded(frame) ==
    FDiv(frame.packet_loss, frame.sent_packets)

\* if current_frame.sent_packets > 0.0 { packet_loss / sent_packets } else { 0.0 }
frame_packet_loss(frame) ==
    IF FLess(Zero, frame.sent_packets)
    THEN FDiv(frame.packet_loss, frame.sent_packets)
    ELSE Zero

\* The value each metric of the frame enters the average with.
frame_value(frame, f) ==
    IF f = "packet_loss" THEN frame_packet_loss(frame) ELSE frame[f]

\* The Metrics calculate_output builds with self.counter = n.
calculate_output(frame, averages, n) ==
    [f \in Fields |-> average(frame_value(frame, f), averages[f], n)]

\* Variant: the frame is carried into the next interval.
reset_frame_kept(frame) == frame

\* self.current_frame = Metrics::default()
reset_frame(frame) == Default

\* The call of the MetricsHandler that has just returned; for
\* calculate_output the frame and the averages it found, the number of
\* record_* and of record_sent_info calls since the call before it, and
\* the snapshot it returned.
MetricsCall(op, frame, previous, calls, sent, snapshot) ==
    [op |-> op, frame |-> frame, previous |-> previous, calls |-> calls,
     sent |-> sent, snapshot |-> snapshot]

Recorded(op) ==
    /\ hist.recorded < MaxRecords
    /\ hist' = [hist EXCEPT !.recorded = @ + 1,
                            !.frame_calls = @ + 1,
                            !.frame_sent = IF op = "record_sent_info" THEN @ + 1 ELSE @]
    /\ call' = MetricsCall(op, Default, Default, 0, 0, Default)
    /\ UNCHANGED <<now, ever_sent, ever_recv, last_heard, last_sent,
                   last_metric, sent_packets, nextSeq, nextItem, counter,
                   current_averages, pairVars>>

RecordSentInfo(sent_bytes) ==
    /\ current_frame' = record_sent_info(current_frame, sent_bytes)
    /\ Recorded("record_sent_info")

RecordReceiveInfo(receive_bytes) ==
    /\ current_frame' = record_receive_info(current_frame, receive_bytes)
    /\ Recorded("record_receive_info")

RecordPacketLoss(dropped_packets_count) ==
    /\ current_frame' = record_packet_loss(current_frame, dropped_packets_count)
    /\ Recorded("record_packet_loss")

RecordRtt(rtt) ==
    /\ current_frame' = record_rtt(current_frame, rtt)
    /\ Recorded("record_rtt")

\* self.counter is a u32; the MaxIntervals calls followed here stay far
\* below its width.
CalculateOutput ==
    LET n == counter + 1
        snapshot == calculate_output(current_frame, current_averages, n)
    IN /\ counter < MaxIntervals
       /\ counter' = n
       /\ current_averages' = snapshot
       /\ current_frame' = reset_frame(current_frame)
       /\ call' = MetricsCall("calculate_output", current_frame, current_averages,
                              hist.frame_calls, hist.frame_sent, snapshot)
       /\ hist' = [hist EXCEPT !.frame_calls = 0, !.frame_sent = 0]
       /\ UNCHANGED <<now, ever_sent, ever_recv, last_heard, last_sent,
                      last_metric, sent_packets, nextSeq, nextItem, pairVars>>

\* ------------------------------------------------------------- remote end

\* Outside SpecPair there is no remote end.
NoRemote == [last_heard |-> 0, last_sent |-> 0, ever_sent |-> FALSE, ever_recv |-> FALSE]

NoLink == [to_local |-> 0, to_remote |-> 0]

NoSched == [heartbeat_interval |-> <<>>, local |-> 0, remote |-> 0]

\* ------------------------------------------------------------ observation

\* The call that has just returned: its operation, its `time` argument, the
\* kind of payload it was given, its result (the returned flag of should_drop, success for the
\* processing calls), what it handed to the messenger, in order, the records
\* it gathered as dropped, the heartbeat interval update was configured
\* with, and the packets process_incoming or process_outgoing returned to
\* process_packet or process_event. Between calls there is none ("idle").
Call(op, time, input, result, out, dropped, heartbeat_interval, produced) ==
    [op |-> op, time |-> time, input |-> input, result |-> result, out |-> out,
     dropped |-> dropped, heartbeat_interval |-> heartbeat_interval,
     produced |-> produced]

Tags(out, kind) == {out[i].tag : i \in {j \in 1..Len(out) : out[j].kind = kind}}

CountTag(out, kind, tag) ==
    Cardinality({i \in 1..Len(out) : out[i].kind = kind /\ out[i].tag = tag})

Origins(records) == {r.origin : r \in records}

Seqs(records) == {r.seq : r \in records}

HistAfter(out, dropped) ==
    [hist EXCEPT
        !.sent_wire = @ \/ Tags(out, "wire") # {},
        !.connects = Min(2, @ + CountTag(out, "event", "Connect")),
        !.gathered = @ \cup Seqs(Range(dropped)),
        !.metrics_at = IF CountTag(out, "event", "Metrics") > 0 THEN now ELSE @]

\* ------------------------------------------------------------ should_drop

\* Variant: the in-flight limit itself already counts as over.
packets_over_inclusive == packets_in_flight >= cfg.max_packets_in_flight

packets_over == packets_in_flight > cfg.max_packets_in_flight

timed_out(time) == LastHeard(time) >= cfg.idle_connection_timeout

should_drop(time) == packets_over \/ timed_out(time)

\* Variant: Timeout is reported only for a connection that was established.
should_drop_events_established_only(drop, established) ==
    IF drop /\ established
    THEN <<SendEvent("Timeout"), SendEvent("Disconnect")>>
    ELSE <<>>

\* Variant: every drop reports Disconnect.
should_drop_events_always_disconnect(drop, established) ==
    IF drop THEN <<SendEvent("Timeout"), SendEvent("Disconnect")>> ELSE <<>>

should_drop_events(drop, established) ==
    IF drop
    THEN <<SendEvent("Timeout")>>
         \o (IF established THEN <<SendEvent("Disconnect")>> ELSE <<>>)
    ELSE <<>>

\* Variant: a dropping should_drop also tears the pending storage down.
ShouldDropTearsDown(time) ==
    LET drop == should_drop(time)
        out == should_drop_events(drop, is_established(ever_sent, ever_recv))
    IN /\ call' = Call("should_drop", time, "", drop, out, <<>>, <<>>, <<>>)
       /\ hist' = HistAfter(out, <<>>)
       /\ sent_packets' = IF drop THEN {} ELSE sent_packets
       /\ UNCHANGED <<now, ever_sent, ever_recv, last_heard, last_sent,
                      last_metric, nextSeq, nextItem, counter>>

ShouldDrop(time) ==
    LET drop == should_drop(time)
        out == should_drop_events(drop, is_established(ever_sent, ever_recv))
    IN /\ call' = Call("should_drop", time, "", drop, out, <<>>, <<>>, <<>>)
       /\ hist' = HistAfter(out, <<>>)
       /\ UNCHANGED <<now, connVars>>

\* --------------------------------------------------------- process_packet

\* Variant: the Packet events go out before Connect.
process_packet_events_connect_last(connect, packets) ==
    [i \in 1..Len(packets) |-> SendPacketEvent(packets[i])]
    \o (IF connect THEN <<SendEvent("Connect")>> ELSE <<>>)

process_packet_events(connect, packets) ==
    (IF connect THEN <<SendEvent("Connect")>> ELSE <<>>)
    \o [i \in 1..Len(packets) |-> SendPacketEvent(packets[i])]

\* Variant: an empty payload counts as a receive.
ProcessPacketEmptyCounted(time) ==
    LET out == process_packet_events(record_recv, <<>>)
    IN /\ call' = Call("process_packet", time, "empty", FALSE, out, <<>>, <<>>, <<>>)
       /\ hist' = HistAfter(out, <<>>)
       /\ last_heard' = time
       /\ ever_recv' = TRUE
       /\ UNCHANGED <<now, ever_sent, last_sent, last_metric, sent_packets,
                      nextSeq, nextItem, counter>>

\* payload.is_empty(): only the error is logged.
ProcessPacketEmpty(time) ==
    /\ call' = Call("process_packet", time, "empty", FALSE, <<>>, <<>>, <<>>, <<>>)
    /\ hist' = HistAfter(<<>>, <<>>)
    /\ UNCHANGED <<now, connVars>>

\* Variant: a payload that fails to parse still counts as a receive.
ProcessPacketErrCounted(time) ==
    LET out == process_packet_events(record_recv, <<>>)
    IN /\ call' = Call("process_packet", time, "malformed", FALSE, out, <<>>, <<>>, <<>>)
       /\ hist' = HistAfter(out, <<>>)
       /\ last_heard' \in {last_heard, time}
       /\ ever_recv' = TRUE
       /\ UNCHANGED <<now, ever_sent, last_sent, last_metric, sent_packets,
                      nextSeq, nextItem, counter>>

\* process_incoming fails: the payload is discarded. Whether the failing
\* parse had already stamped last_heard is left open.
ProcessPacketErr(time) ==
    /\ call' = Call("process_packet", time, "malformed", FALSE, <<>>, <<>>, <<>>, <<>>)
    /\ hist' = HistAfter(<<>>, <<>>)
    /\ last_heard' \in {last_heard, time}
    /\ UNCHANGED <<now, ever_sent, ever_recv, last_sent, last_metric,
                   sent_packets, nextSeq, nextItem, counter>>

\* Variant: a processed payload does not refresh last_heard.
ProcessPacketOkUnstamped(time, acked, packets) ==
    LET out == process_packet_events(record_recv, packets)
    IN /\ call' = Call("process_packet", time, "valid", TRUE, out, <<>>, <<>>,
                    packets)
       /\ hist' = [HistAfter(out, <<>>) EXCEPT !.recv_ok = TRUE]
       /\ ever_recv' = TRUE
       /\ sent_packets' = {r \in sent_packets : r.seq \notin acked}
       /\ UNCHANGED <<now, ever_sent, last_heard, last_sent, last_metric,
                      nextSeq, nextItem, counter>>

\* process_incoming succeeds: acknowledged records leave the pending
\* storage, the logical packets `packets` are handed to the application.
ProcessPacketOk(time, acked, packets) ==
    LET out == process_packet_events(record_recv, packets)
    IN /\ call' = Call("process_packet", time, "valid", TRUE, out, <<>>, <<>>,
                    packets)
       /\ hist' = [HistAfter(out, <<>>) EXCEPT !.recv_ok = TRUE]
       /\ last_heard' = time
       /\ ever_recv' = TRUE
       /\ sent_packets' = {r \in sent_packets : r.seq \notin acked}
       /\ UNCHANGED <<now, ever_sent, last_sent, last_metric, nextSeq,
                      nextItem, counter>>

\* ---------------------------------------------------------- process_event

\* Variant: every user send reports Connect.
process_event_events_always(connect, packets) ==
    <<SendEvent("Connect")>> \o send_packets(packets, "user packet")

process_event_events(connect, packets) ==
    (IF connect THEN <<SendEvent("Connect")>> ELSE <<>>)
    \o send_packets(packets, "user packet")

ProcessEvent(time, len, delivery, ordering) ==
    LET packets == process_outgoing(user_packet(len, delivery, ordering),
                                    <<>>, time, nextSeq, nextItem)
        out == process_event_events(record_send, packets)
    IN /\ packets.nextSeq <= MaxSeq + 1
       /\ packets.nextItem <= MaxSeq + 1
       /\ call' = Call("process_event", time,
                       IF packets.ok THEN "valid" ELSE "oversized",
                       packets.ok, out, <<>>, <<>>, packets.packets)
       /\ hist' = HistAfter(out, <<>>)
       /\ ever_sent' = TRUE
       /\ IF packets.ok THEN last_sent' = time
                        ELSE last_sent' \in {last_sent, time}
       /\ sent_packets' = sent_packets \cup packets.records
       /\ nextSeq' = packets.nextSeq
       /\ nextItem' = packets.nextItem
       /\ UNCHANGED <<now, ever_recv, last_heard, last_metric, counter>>

\* ----------------------------------------------------------------- update

\* The PacketInfo a dropped record is resent with.
resend_info(dropped) ==
    PacketInfo(dropped.packet_type, dropped.payload, "Reliable",
               dropped.ordering_guarantee)

\* Variant: the resend is handed no item identifier.
resend_item_none(dropped) == <<>>

resend_item(dropped) == dropped.item_identifier

\* for dropped in self.gather_dropped_packets() { process_outgoing; send_packets }
RECURSIVE resend_dropped(_, _, _)

\* Variant: only the first gathered record is resent.
resend_first_dropped(dropped, time, st) ==
    IF dropped = <<>> THEN st
    ELSE LET d == Head(dropped)
             packets == process_outgoing(resend_info(d), resend_item(d), time,
                                         st.nextSeq, st.nextItem)
         IN [out |-> st.out \o send_packets(packets, "dropped packets"),
             records |-> st.records
                         \cup {[r EXCEPT !.origin = d.origin] : r \in packets.records},
             nextSeq |-> packets.nextSeq,
             nextItem |-> packets.nextItem,
             last_sent |-> IF packets.ok THEN time ELSE st.last_sent]

resend_dropped(dropped, time, st) ==
    IF dropped = <<>> THEN st
    ELSE LET d == Head(dropped)
             packets == process_outgoing(resend_info(d), resend_item(d), time,
                                         st.nextSeq, st.nextItem)
         IN resend_dropped(Tail(dropped), time,
                [out |-> st.out \o send_packets(packets, "dropped packets"),
                 records |-> st.records
                             \cup {[r EXCEPT !.origin = d.origin] : r \in packets.records},
                 nextSeq |-> packets.nextSeq,
                 nextItem |-> packets.nextItem,
                 last_sent |-> IF packets.ok THEN time ELSE st.last_sent])

\* Variant: the heartbeat does not wait for the connection to be established.
heartbeat_due_unestablished(established, heartbeat_interval, sent_at, time) ==
    /\ heartbeat_interval # <<>>
    /\ LastSent(sent_at, time) >= heartbeat_interval[1]

heartbeat_due(established, heartbeat_interval, sent_at, time) ==
    /\ established
    /\ heartbeat_interval # <<>>
    /\ LastSent(sent_at, time) >= heartbeat_interval[1]

\* Variant: any elapsed clock unit counts as a second.
metrics_due_any_unit == now - last_metric >= 1

metrics_due == (now - last_metric) \div UnitsPerSec >= 1

\* Variant: the heartbeat goes out before the resends.
update_out_heartbeat_first(resent, heartbeat, metrics) ==
    heartbeat \o resent \o metrics

update_out(resent, heartbeat, metrics) == resent \o heartbeat \o metrics

Update(time, heartbeat_interval) ==
    LET dropped == gather_dropped_packets
        kept == sent_packets \ Range(dropped)
        st == resend_dropped(dropped, time,
                  [out |-> <<>>, records |-> {}, nextSeq |-> nextSeq,
                   nextItem |-> nextItem, last_sent |-> last_sent])
        beat == heartbeat_due(is_established(ever_sent, ever_recv),
                              heartbeat_interval, st.last_sent, time)
        hb == process_outgoing(heartbeat_packet, <<>>, time, st.nextSeq, st.nextItem)
        heartbeat == IF beat THEN send_packets(hb, "heatbeat packet") ELSE <<>>
        metrics == IF metrics_due THEN <<SendEvent("Metrics")>> ELSE <<>>
        out == update_out(st.out, heartbeat, metrics)
    IN /\ call' = Call("update", time, "", FALSE, out, dropped, heartbeat_interval, <<>>)
       /\ hist' = HistAfter(out, dropped)
       /\ sent_packets' = kept \cup st.records
       /\ nextSeq' = st.nextSeq
       /\ nextItem' = st.nextItem
       /\ last_sent' = IF beat THEN time ELSE st.last_sent
       /\ counter' = IF metrics_due THEN counter + 1 ELSE counter
       /\ last_metric' = IF metrics_due THEN now ELSE last_metric
       /\ UNCHANGED <<now, ever_sent, ever_recv, last_heard>>

\* ------------------------------------------------------------------ clock

Tick ==
    /\ now < MaxTime
    /\ now' = now + 1
    /\ call' = Call("idle", 0, "", FALSE, <<>>, <<>>, <<>>, <<>>)
    /\ UNCHANGED <<connVars, hist>>

\* ---------------------------------------------------------- specification

\* VirtualConnection::new(address, config, time)
Init ==
    /\ now = 0
    /\ ever_sent = FALSE
    /\ ever_recv = FALSE
    /\ last_heard = now
    /\ last_sent = now
    /\ last_metric = now
    /\ sent_packets = {}
    /\ nextSeq = 1
    /\ nextItem = 1
    /\ counter = 0
    /\ hist = [sent_wire |-> FALSE, recv_ok |-> FALSE,
               connects |-> 0, gathered |-> {}, metrics_at |-> 0 - 1,
               created |-> now,
               recorded |-> 0, frame_calls |-> 0, frame_sent |-> 0]
    /\ call = Call("create_connection", 0, "", FALSE, <<>>, <<>>, <<>>, <<>>)
    /\ current_frame = Default
    /\ current_averages = Default
    /\ remote = NoRemote
    /\ link = NoLink
    /\ sched = NoSched

\* The caller hands in the instant it has just read off the clock.
Times == {now}

\* Spec follows one connection: the figures of its MetricsHandler and the
\* remote end are left out of it.
DoTick == Tick /\ UNCHANGED <<metricsVars, pairVars>>

DoShouldDrop ==
    /\ \E time \in Times : ShouldDrop(time)
    /\ UNCHANGED <<metricsVars, pairVars>>

DoProcessPacketEmpty ==
    /\ \E time \in Times : ProcessPacketEmpty(time)
    /\ UNCHANGED <<metricsVars, pairVars>>

DoProcessPacketErr ==
    /\ \E time \in Times : ProcessPacketErr(time)
    /\ UNCHANGED <<metricsVars, pairVars>>

\* The valid payloads tried: one that acknowledges any of the pending
\* records and carries one logical packet, and ones that acknowledge
\* nothing and yield no, one or two logical packets.
ValidPayloads ==
    {[acked |-> a, packets |-> <<1>>] : a \in SUBSET Seqs(sent_packets)}
    \cup {[acked |-> {}, packets |-> p] : p \in {<<>>, <<1>>, <<1, 2>>, <<2, 1>>}}

DoProcessPacketOk ==
    /\ \E time \in Times, payload \in ValidPayloads :
           ProcessPacketOk(time, payload.acked, payload.packets)
    /\ UNCHANGED <<metricsVars, pairVars>>

DoProcessEvent ==
    /\ \E time \in Times, send \in UserSends :
           ProcessEvent(time, send.len, send.delivery, send.ordering)
    /\ UNCHANGED <<metricsVars, pairVars>>

DoUpdate ==
    /\ \E time \in Times, heartbeat_interval \in HeartbeatChoices :
           Update(time, heartbeat_interval)
    /\ UNCHANGED <<metricsVars, pairVars>>

Next ==
    \/ DoTick
    \/ DoShouldDrop
    \/ DoProcessPacketEmpty
    \/ DoProcessPacketErr
    \/ DoProcessPacketOk
    \/ DoProcessEvent
    \/ DoUpdate

Spec == Init /\ [][Next]_vars

\* The MetricsHandler of a connection, from MetricsHandler::new() on, under
\* any sequence of its calls.
DoRecordSentInfo == \E sent_bytes \in SentBytes : RecordSentInfo(sent_bytes)

DoRecordReceiveInfo ==
    \E receive_bytes \in ReceiveBytes : RecordReceiveInfo(receive_bytes)

DoRecordPacketLoss ==
    \E dropped_packets_count \in DroppedCounts :
        RecordPacketLoss(dropped_packets_count)

DoRecordRtt == \E rtt \in RttSamples : RecordRtt(rtt)

MetricsNext ==
    \/ DoRecordSentInfo
    \/ DoRecordReceiveInfo
    \/ DoRecordPacketLoss
    \/ DoRecordRtt
    \/ CalculateOutput

SpecMetrics == Init /\ [][MetricsNext]_vars

\* ------------------------------------------------------------- properties

Established == is_established(ever_sent, ever_recv)

Emitted(kind, tag) == CountTag(call.out, kind, tag)

Resent == SelectSeq(call.out, LAMBDA e : e.kind = "wire" /\ e.tag = "dropped packets")

\* C1: should_drop returns true exactly when more than max_packets_in_flight
\* packets are in flight or the time since the last received packet is at
\* least idle_connection_timeout; at or below the limit and heard from
\* recently the connection is kept.
C1_ShouldDropPredicate ==
    call.op = "should_drop" =>
        LET in_flight == Cardinality(sent_packets)
            idle == call.time - last_heard
        IN /\ call.result <=> (in_flight > cfg.max_packets_in_flight
                               \/ idle >= cfg.idle_connection_timeout)
           /\ (in_flight <= cfg.max_packets_in_flight
               /\ idle < cfg.idle_connection_timeout) => ~call.result
           /\ in_flight = cfg.max_packets_in_flight + 1 => call.result
           /\ idle = cfg.idle_connection_timeout => call.result

C1_Witness ==
    /\ call.op = "should_drop"
    /\ call.result
    /\ Cardinality(sent_packets) = cfg.max_packets_in_flight + 1
    /\ call.time - last_heard < cfg.idle_connection_timeout

\* C2: a should_drop that returns true emits exactly Timeout, followed by
\* Disconnect exactly when the connection is established; one that returns
\* false emits nothing.
C2_DropEvents ==
    call.op = "should_drop" =>
        call.out = IF ~call.result THEN <<>>
                   ELSE IF Established
                        THEN <<SendEvent("Timeout"), SendEvent("Disconnect")>>
                        ELSE <<SendEvent("Timeout")>>

C2_Witness ==
    /\ call.op = "should_drop"
    /\ call.result
    /\ Cardinality(sent_packets) <= cfg.max_packets_in_flight
    /\ call.out = <<SendEvent("Timeout"), SendEvent("Disconnect")>>

\* C3 (as claimed): the connection is established exactly when it has sent
\* at least one packet and received at least one packet.
C3_EstablishedIffSentAndReceived ==
    Established <=> (hist.sent_wire /\ hist.recv_ok)

\* C4: Connect is emitted exactly in the step that turns the connection
\* established, by a user send or by a successfully processed receive: it
\* has been emitted once when the connection is established and never
\* while it is not.
C4_ConnectOnEstablish ==
    /\ hist.connects = IF Established THEN 1 ELSE 0
    /\ Emitted("event", "Connect") > 0 =>
           /\ Emitted("event", "Connect") = 1
           /\ Established
           /\ \/ call.op = "process_event"
              \/ call.op = "process_packet" /\ call.input = "valid"

C4_Witness ==
    /\ call.op = "process_packet"
    /\ Emitted("event", "Connect") = 1
    /\ hist.connects = 1
    /\ hist.sent_wire

\* C5 (as claimed): after should_drop has returned true, no operation
\* invoked on the connection delivers an event; here for the operation
\* invoked next.
C5_DroppedIsTerminal ==
    [][(call.op = "should_drop" /\ call.result) => call'.out = <<>>]_vars

\* C5 (amended): should_drop only reports. It leaves every field of the
\* connection as it was, and asked again at the same instant it answers
\* and emits the same again.
C5_ShouldDropOnlyReports ==
    [][call'.op = "should_drop" =>
          /\ UNCHANGED connVars
          /\ call.op = "should_drop" =>
                 (call'.result = call.result /\ call'.out = call.out)]_vars

C5_Witness ==
    /\ call.op = "should_drop"
    /\ call.result
    /\ ~Established
    /\ sent_packets # {}
    /\ call.out = <<SendEvent("Timeout")>>

Rank(e) ==
    IF e.kind = "wire" /\ e.tag = "dropped packets" THEN 1
    ELSE IF e.kind = "wire" /\ e.tag = "heatbeat packet" THEN 2
    ELSE IF e.kind = "event" /\ e.tag = "Metrics" THEN 3
    ELSE 0

\* C6: what one update hands to the messenger is, in this order, the wire
\* packets of the resent records, then the heartbeat packet, then the
\* Metrics event, and nothing else.
C6_TickOrder ==
    call.op = "update" =>
        /\ \A i \in 1..Len(call.out) : Rank(call.out[i]) > 0
        /\ \A i, j \in 1..Len(call.out) :
               i < j => Rank(call.out[i]) <= Rank(call.out[j])

C6_Witness ==
    /\ call.op = "update"
    /\ Len(call.dropped) = 2
    /\ Emitted("wire", "dropped packets") = 2
    /\ Emitted("wire", "heatbeat packet") = 1
    /\ Emitted("event", "Metrics") = 1

\* C7: an update sends a heartbeat exactly when the connection is
\* established, a heartbeat interval is configured and the time since the
\* last send, a resend of the same update counting as one, is at least
\* the interval; it never sends more than one.
C7_HeartbeatRule ==
    [][call'.op = "update" =>
          LET beats == CountTag(call'.out, "wire", "heatbeat packet")
              interval == call'.heartbeat_interval
              since_sent == IF call'.dropped # <<>> THEN 0
                            ELSE call'.time - last_sent
          IN /\ beats <= 1
             /\ beats = 1 <=> /\ Established
                              /\ interval # <<>>
                              /\ since_sent >= interval[1]
             /\ (call'.dropped # <<>> /\ interval # <<>> /\ interval[1] > 0)
                    => beats = 0]_vars

C7_Witness ==
    /\ call.op = "update"
    /\ call.heartbeat_interval = <<2>>
    /\ call.dropped = <<>>
    /\ call.out = <<SendPacket("heatbeat packet",
                               [seq |-> 0, payload |-> 0,
                                packet_type |-> "Heartbeat",
                                delivery |-> "Unreliable",
                                ordering |-> "None",
                                item_identifier |-> <<>>])>>

\* C8: an update emits Metrics, with one call of calculate_output, exactly
\* when at least one whole second has passed on the clock since
\* last_metric, established or not, and then restarts the timer; Metrics
\* events are at least a second apart and there is at most one per second
\* of the connection's life.
C8_MetricsRule ==
    [][call'.op = "update" =>
          LET emitted == CountTag(call'.out, "event", "Metrics")
          IN /\ emitted <= 1
             /\ emitted = 1 <=> now - last_metric >= UnitsPerSec
             /\ emitted = 1 =>
                    /\ counter' = counter + 1
                    /\ last_metric' = now
                    /\ hist.metrics_at >= 0 => now - hist.metrics_at >= UnitsPerSec
             /\ emitted = 0 => UNCHANGED <<counter, last_metric>>
             /\ counter' * UnitsPerSec <= now - hist.created]_vars

C8_Witness ==
    /\ call.op = "update"
    /\ Emitted("event", "Metrics") = 1
    /\ counter = 2
    /\ ~Established

C10_ResendKeepsRecord ==
    call.op = "update" =>
        /\ Len(Resent) = Len(call.dropped)
        /\ \A i \in 1..Len(call.dropped) :
               LET d == call.dropped[i]
                   w == Resent[Min(i, Len(Resent))].pkt
               IN /\ w.payload = d.payload
                  /\ w.packet_type = d.packet_type
                  /\ w.ordering = d.ordering_guarantee
                  /\ w.item_identifier = d.item_identifier
                  /\ w.delivery = "Reliable"

C10_Witness ==
    /\ call.op = "update"
    /\ Len(call.dropped) = 1
    /\ call.dropped[1].ordering_guarantee = "Ordered"
    /\ call.dropped[1].item_identifier # <<>>
    /\ Len(Resent) = 1
    /\ Resent[1].pkt.seq > call.dropped[1].seq

\* C11: process_packet with an empty payload only reports the error: it
\* emits no event, counts no receive, leaves every field of the connection
\* (the established flag and the pending records among them) as it was,
\* and should_drop answers after it what it answered before it.
C11_EmptyPayloadIgnored ==
    [][(call'.op = "process_packet" /\ call'.input = "empty") =>
          /\ call'.out = <<>>
          /\ ~call'.result
          /\ UNCHANGED connVars
          /\ hist'.connects = hist.connects
          /\ hist'.recv_ok = hist.recv_ok
          /\ Established' = Established
          /\ Cardinality(sent_packets') = Cardinality(sent_packets)
          /\ \A time \in 0..MaxTime :
                 time = call'.time => should_drop(time)' = should_drop(time)]_vars

C11_Witness ==
    /\ call.op = "process_packet"
    /\ call.input = "empty"
    /\ ever_sent
    /\ ~ever_recv
    /\ sent_packets # {}
    /\ ~should_drop(call.time)

\* C12: a non-empty payload whose processing fails is discarded: no
\* Connect and no Packet is emitted, no receive is counted, so that a
\* connection that has only sent stays not established, the pending
\* records stay, and should_drop does not answer true after it unless it
\* answered true before it.
C12_FailedPayloadDiscarded ==
    [][(call'.op = "process_packet" /\ call'.input = "malformed") =>
          /\ call'.out = <<>>
          /\ ~call'.result
          /\ UNCHANGED <<ever_sent, ever_recv, sent_packets>>
          /\ hist'.connects = hist.connects
          /\ hist'.recv_ok = hist.recv_ok
          /\ Established' = Established
          /\ \A time \in 0..MaxTime :
                 time = call'.time => (should_drop(time)' => should_drop(time))]_vars

C12_Witness ==
    /\ call.op = "process_packet"
    /\ call.input = "malformed"
    /\ ever_sent
    /\ ~ever_recv
    /\ ~Established
    /\ last_heard < call.time

Events(out, tag) == SelectSeq(out, LAMBDA e : e.kind = "event" /\ e.tag = tag)

Wires(out) == SelectSeq(out, LAMBDA e : e.kind = "wire")

\* C17: a process_packet whose payload was processed successfully emits
\* one Packet event per logical packet the parsing step returned, in the
\* order returned, and nothing else but at most one Connect; Connect, when
\* this payload establishes the connection, comes first, and a Packet
\* event of an established connection has had its Connect before it.
C17_PacketEventsInOrder ==
    (call.op = "process_packet" /\ call.input = "valid") =>
        LET packets == Events(call.out, "Packet")
            connects == Emitted("event", "Connect")
        IN /\ Len(packets) = Len(call.produced)
           /\ \A i \in 1..Len(packets) :
                  packets[i] = SendPacketEvent(call.produced[Min(i, Len(call.produced))])
           /\ connects <= 1
           /\ Len(call.out) = connects + Len(packets)
           /\ connects = 1 => call.out[1] = SendEvent("Connect")
           /\ (Established /\ packets # <<>>) => hist.connects = 1

C17_Witness ==
    /\ call.op = "process_packet"
    /\ call.input = "valid"
    /\ call.produced = <<2, 1>>
    /\ call.out = <<SendEvent("Connect"), SendPacketEvent(2), SendPacketEvent(1)>>

\* C18: a process_event dispatches the wire packets built for the event,
\* all of them, once each, in the order they were generated, and nothing
\* else but at most one Connect, which comes first; when building them
\* fails it dispatches no wire packet.
C18_WirePacketsInOrder ==
    call.op = "process_event" =>
        LET wires == Wires(call.out)
            connects == Emitted("event", "Connect")
        IN /\ Len(wires) = Len(call.produced)
           /\ \A i \in 1..Len(wires) :
                  wires[i] = SendPacket("user packet",
                                        call.produced[Min(i, Len(call.produced))])
           /\ ~call.result => wires = <<>>
           /\ call.result => wires # <<>>
           /\ connects <= 1
           /\ Len(call.out) = connects + Len(wires)
           /\ connects = 1 => call.out[1] = SendEvent("Connect")

C18_Witness ==
    /\ call.op = "process_event"
    /\ call.result
    /\ Len(call.produced) = 2
    /\ call.produced[1].seq < call.produced[2].seq
    /\ Len(call.out) = 3
    /\ call.out[1] = SendEvent("Connect")
    /\ call.out[3].pkt = call.produced[2]

\* C19: a Disconnect is emitted only by should_drop, right after the
\* Timeout of the same call, and only for a connection that has emitted
\* exactly one Connect; a connection that has emitted no Connect emits
\* Timeout alone when it is dropped.
C19_DisconnectAfterConnect ==
    /\ \A i \in 1..Len(call.out) :
           call.out[i] = SendEvent("Disconnect") =>
               /\ call.op = "should_drop"
               /\ i > 1
               /\ call.out[Max(i - 1, 1)] = SendEvent("Timeout")
               /\ hist.connects = 1
    /\ (call.op = "should_drop" /\ call.result /\ hist.connects = 0) =>
           call.out = <<SendEvent("Timeout")>>

C19_Witness ==
    /\ call.op = "should_drop"
    /\ Cardinality(sent_packets) > cfg.max_packets_in_flight
    /\ call.time - last_heard < cfg.idle_connection_timeout
    /\ hist.connects = 1
    /\ call.out[Len(call.out)] = SendEvent("Disconnect")

\* --------------------------------------------------------------- SpecPair

\* Two connected ends, each a VirtualConnection running the code above,
\* that exchange nothing but heartbeats. The local end is the connection
\* of this module; of the remote end the fields the heartbeat and the idle
\* timeout read are kept in `remote`. The link loses nothing and delivers
\* within the clock unit a packet was sent in; each end runs update at
\* least once per heartbeat interval.
PairHeartbeats == {<<1>>, <<2>>}

HeartbeatsSent(out) == CountTag(out, "wire", "heatbeat packet")

\* The connection is established on both ends and both have just sent
\* and heard.
PairInit ==
    /\ now = 0
    /\ ever_sent = TRUE
    /\ ever_recv = TRUE
    /\ last_heard = now
    /\ last_sent = now
    /\ last_metric = now
    /\ sent_packets = {}
    /\ nextSeq = 1
    /\ nextItem = 1
    /\ counter = 0
    /\ hist = [sent_wire |-> TRUE, recv_ok |-> TRUE,
               connects |-> 1, gathered |-> {}, metrics_at |-> 0 - 1,
               created |-> now,
               recorded |-> 0, frame_calls |-> 0, frame_sent |-> 0]
    /\ call = Call("idle", 0, "", FALSE, <<>>, <<>>, <<>>, <<>>)
    /\ current_frame = Default
    /\ current_averages = Default
    /\ remote = [last_heard |-> now, last_sent |-> now,
                 ever_sent |-> TRUE, ever_recv |-> TRUE]
    /\ link = NoLink
    /\ \E heartbeat_interval \in PairHeartbeats :
           sched = [heartbeat_interval |-> heartbeat_interval,
                    local |-> now, remote |-> now]

\* The clock moves on once the link is empty and neither end would fall
\* behind with its update.
PairTick ==
    /\ link = NoLink
    /\ now + 1 - sched.local <= sched.heartbeat_interval[1]
    /\ now + 1 - sched.remote <= sched.heartbeat_interval[1]
    /\ Tick
    /\ UNCHANGED <<metricsVars, pairVars>>

LocalUpdate ==
    /\ Update(now, sched.heartbeat_interval)
    /\ link' = [link EXCEPT !.to_remote = @ + HeartbeatsSent(call'.out)]
    /\ sched' = [sched EXCEPT !.local = now]
    /\ UNCHANGED <<metricsVars, remote>>

\* A heartbeat parses to no logical packet and acknowledges nothing new.
LocalProcessPacket ==
    /\ link.to_local > 0
    /\ ProcessPacketOk(now, {}, <<>>)
    /\ link' = [link EXCEPT !.to_local = @ - 1]
    /\ UNCHANGED <<metricsVars, remote, sched>>

LocalShouldDrop ==
    /\ ShouldDrop(now)
    /\ UNCHANGED <<metricsVars, pairVars>>

\* update at the remote end: nothing to resend, the heartbeat when due.
RemoteUpdate ==
    LET beat == heartbeat_due(is_established(remote.ever_sent, remote.ever_recv),
                              sched.heartbeat_interval, remote.last_sent, now)
    IN /\ remote' = IF beat THEN [remote EXCEPT !.last_sent = now] ELSE remote
       /\ link' = IF beat THEN [link EXCEPT !.to_local = @ + 1] ELSE link
       /\ sched' = [sched EXCEPT !.remote = now]
       /\ UNCHANGED <<now, connVars, call, hist, metricsVars>>

\* process_packet at the remote end, on a heartbeat.
RemoteProcessPacket ==
    /\ link.to_remote > 0
    /\ remote' = [remote EXCEPT !.last_heard = now, !.ever_recv = TRUE]
    /\ link' = [link EXCEPT !.to_remote = @ - 1]
    /\ UNCHANGED <<now, connVars, call, hist, metricsVars, sched>>

\* What should_drop at the remote end would find at `time`.
remote_timed_out(time) == time - remote.last_heard >= cfg.idle_connection_timeout

PairNext ==
    \/ PairTick
    \/ LocalUpdate
    \/ LocalProcessPacket
    \/ LocalShouldDrop
    \/ RemoteUpdate
    \/ RemoteProcessPacket

SpecPair == PairInit /\ [][PairNext]_vars

\* --------------------------------------------- properties of SpecMetrics

CalculatedOutput == call.op = "calculate_output"

Half(x) == FDiv(x, Frac(2, 1))

Between(x, a, b) == (FLeq(a, x) /\ FLeq(x, b)) \/ (FLeq(b, x) /\ FLeq(x, a))

\* C13 (as claimed): calculate_output on a frame nothing was recorded in
\* returns a snapshot of finite figures that are all zero, whatever the
\* intervals before it.
C13_EmptyFrameAllZero ==
    (CalculatedOutput /\ call.calls = 0) =>
        \A f \in Fields : IsFinite(call.snapshot[f]) /\ call.snapshot[f] = Zero

\* C13 (amended): calculate_output on a frame nothing was recorded in
\* divides by at least one and returns finite figures: all zero on the
\* first call, and on every later call half of the previous snapshot,
\* which is zero only where the previous snapshot was.
C13_EmptyFrameHalves ==
    (CalculatedOutput /\ call.calls = 0) =>
        /\ Min(counter, FACTOR) >= 1
        /\ call.frame = Default
        /\ \A f \in Fields :
               /\ IsFinite(call.snapshot[f])
               /\ call.snapshot[f] = IF counter = 1 THEN Zero
                                     ELSE Half(call.previous[f])
               /\ call.snapshot[f] = Zero <=> call.previous[f] = Zero

C13_Witness ==
    /\ CalculatedOutput
    /\ call.calls = 0
    /\ counter = 3
    /\ call.previous.sent_packets = Frac(1, 2)
    /\ call.snapshot.sent_packets = Frac(1, 4)
    /\ call.snapshot.packet_loss # Zero

C15_SentPacketsEqualsRecorded ==
    CalculatedOutput =>
        /\ call.snapshot.sent_packets = Frac(call.sent, 1)
        /\ Between(call.snapshot.sent_kbps, call.previous.sent_kbps,
                   call.frame.sent_kbps)

\* C15 (amended): after k record_sent_info calls in an interval the
\* following calculate_output returns sent_packets = k when it is the
\* handler's first, and later the midpoint of the previous snapshot's
\* sent_packets and k, which is k only where the previous snapshot had k;
\* sent_kbps lies between the previous snapshot's and the kilobytes of the
\* interval, a thousandth of the bytes recorded.
C15_SentPacketsSmoothed ==
    CalculatedOutput =>
        LET k == Frac(call.sent, 1)
            prev == call.previous.sent_packets
            bytes == CHOOSE sent_bytes \in SentBytes : TRUE
            kilobytes == Frac(call.sent * bytes, 1000)
        IN /\ counter = 1 => call.snapshot.sent_packets = k
           /\ counter > 1 => call.snapshot.sent_packets = Half(FAdd(prev, k))
           /\ (call.snapshot.sent_packets = k) <=> (counter = 1 \/ prev = k)
           /\ call.frame.sent_kbps = kilobytes
           /\ Between(call.snapshot.sent_kbps, call.previous.sent_kbps, kilobytes)

C15_Witness ==
    /\ CalculatedOutput
    /\ counter = 2
    /\ call.sent = 3
    /\ call.previous.sent_packets = Zero
    /\ call.snapshot.sent_packets = Frac(3, 2)
    /\ call.snapshot.sent_kbps = Frac(3, 20)

\* C16 (as claimed): the packet_loss of every snapshot calculate_output
\* returns is a ratio between 0 and 1.
C16_PacketLossIsRatio ==
    CalculatedOutput =>
        /\ FLeq(Zero, call.snapshot.packet_loss)
        /\ FLeq(call.snapshot.packet_loss, Frac(1, 1))

\* ------------------------------------------------ properties of SpecPair

NeverIdle ==
    /\ ~timed_out(now)
    /\ ~remote_timed_out(now)
    /\ now - last_heard < cfg.idle_connection_timeout
    /\ now - remote.last_heard < cfg.idle_connection_timeout
    /\ call.op = "should_drop" => ~call.result

\* C20 (as claimed): with a heartbeat interval shorter than the idle
\* timeout, updates at least once per heartbeat interval on both ends and
\* a link that loses nothing, the time since the last received packet
\* stays below the idle timeout on both ends and should_drop never
\* answers true.
C20_HeartbeatsKeepAlive ==
    sched.heartbeat_interval[1] < cfg.idle_connection_timeout => NeverIdle

\* C20 (amended): the same holds when the heartbeat interval is at most
\* half the idle timeout.
C20_HeartbeatsAtHalfTimeoutKeepAlive ==
    2 * sched.heartbeat_interval[1] <= cfg.idle_connection_timeout => NeverIdle

C20_Witness ==
    /\ sched.heartbeat_interval = <<1>>
    /\ now = cfg.idle_connection_timeout + 1
    /\ call.op = "should_drop"
    /\ ~call.result
    /\ last_heard = now - 1
    /\ remote.last_heard = now

====
